---- MODULE Spec2Model ----
(***************************************************************************)
(* makea.cat: the request handlers (src/src/main.rs), the time gate        *)
(* (src/src/time.rs) and the drawing module (src/src/draw.rs): scene       *)
(* composition in draw order on a raqote DrawTarget and the serialisation  *)
(* of the canvas to PNG.                                                   *)
(*                                                                         *)
(* Conventions.  Option<T> is a sequence of length at most one.  Lengths   *)
(* and coordinates are fixed-point integers in tenths of a canvas unit,    *)
(* angles are whole degrees, scale factors are thousandths.  A transform   *)
(* is the sequence of the primitive maps it applies, first to last, so     *)
(* that euclid's a.then(b) is concatenation.  A path is the sequence of    *)
(* the PathBuilder calls that built it.                                    *)
(***************************************************************************)
EXTENDS Integers, Sequences, FiniteSets, TLC

(***************************************************************************)
(* Program constants.                                                      *)
(***************************************************************************)
HOUR == 2
MINUTE == 22
CLIENT_LEEWAY == 1
CanvasWidth == 400
CanvasHeight == 256
ColorMin == 100
ColorMax == 255
DefaultStrokeWidth == 5
TailStrokeWidth == 7
MiterLimit == 2
MaxDriftMs == 15000

(***************************************************************************)
(* Bounds of the model.                                                    *)
(***************************************************************************)
MaxRequests == 2
MaxPixels == 2

None == <<>>
Some(x) == <<x>>

(***************************************************************************)
(* Samples of the ranges the random source draws from.  Each set holds     *)
(* values of the half-open range of the code, its lower end included.      *)
(***************************************************************************)
ChannelSamples == {ColorMin, ColorMax}
HalfTurnSamples == {0, 179}
ScaleJitterSamples == {-20}
ShiftXSamples == {-700}
ShiftYSamples == {449}
TailSignSamples == {1, -1}
NeckSamples == {110}
BodyWidthSamples == {550}
BodyHeightSamples == {299}
LegWidthSamples == {60, 79}
LegHeightSamples == {230}
EarJitterSamples == {-20}
EyeSamples == {27}
NoseJitterSamples == {5}

(***************************************************************************)
(* Transforms (euclid Transform2D).                                        *)
(***************************************************************************)
Identity == <<>>
Scale(sx, sy) == <<[op |-> "scale", a |-> sx, b |-> sy]>>
Rotation(deg) == <<[op |-> "rotate", a |-> deg, b |-> 0]>>
Translation(x, y) == <<[op |-> "translate", a |-> x, b |-> y]>>
Then(t, u) == t \o u

(***************************************************************************)
(* Sources, draw options and stroke styles.                                *)
(***************************************************************************)
BLACK == [r |-> 0, g |-> 0, b |-> 0, a |-> 255]

DRAW == [blend_mode |-> "SrcOver", alpha |-> 1, antialias |-> "Gray"]

StrokeStyle(w) ==
    [cap |-> "Round", join |-> "Miter", width |-> w,
     miter_limit |-> MiterLimit, dash_array |-> <<>>, dash_offset |-> 0]

\* The value STROKE.get_or_init computes.
DefaultStroke == StrokeStyle(DefaultStrokeWidth)

\* The tail stroked with the default width.
TailStrokeDefault == StrokeStyle(DefaultStrokeWidth)

\* The style written out in place for the tail.
TailStroke == StrokeStyle(TailStrokeWidth)

\* Colours drawn over the whole channel range, 0..=255.
any_color ==
    { [r |-> cr, g |-> cg, b |-> cb, a |-> 255] :
        cr \in {0, ColorMax}, cg \in ChannelSamples, cb \in ChannelSamples }

\* The colours random_color() can return.
random_color ==
    { [r |-> cr, g |-> cg, b |-> cb, a |-> 255] :
        cr \in ChannelSamples, cg \in ChannelSamples, cb \in ChannelSamples }

(***************************************************************************)
(* Paths (raqote PathBuilder).                                             *)
(***************************************************************************)
MoveTo(x, y) == [op |-> "move_to", pts |-> <<x, y>>]
LineTo(x, y) == [op |-> "line_to", pts |-> <<x, y>>]
QuadTo(cx, cy, x, y) == [op |-> "quad_to", pts |-> <<cx, cy, x, y>>]
CubicTo(ax, ay, bx, by, x, y) == [op |-> "cubic_to", pts |-> <<ax, ay, bx, by, x, y>>]
Close == [op |-> "close", pts |-> <<>>]

\* PathBuilder::rect: four corners and a close.
Rect(x, y, w, h) ==
    <<MoveTo(x, y), LineTo(x + w, y), LineTo(x + w, y + h), LineTo(x, y + h), Close>>

\* ellipse(): move to the start of the full-turn arc, then the quadratic
\* segments lyon yields for it, kept as the arc they approximate.
ellipse(x, y, width, height) ==
    <<MoveTo(x + width, y),
      [op |-> "arc_quads", pts |-> <<x, y, width, height, 0, 360>>]>>

(***************************************************************************)
(* Canvas samples.  A 32-bit sample does not fit the model checker's       *)
(* integers, so it is kept as its two 16-bit halves: hi holds alpha and    *)
(* red, lo holds green and blue.                                           *)
(***************************************************************************)
Pixel(a, r, g, b) == [hi |-> a * 256 + r, lo |-> g * 256 + b]

\* (pixel >> n) & 0xff for n in {0, 8, 16, 24}.
ShiftMask(pixel, n) ==
    IF n >= 16
    THEN (pixel.hi \div (2 ^ (n - 16))) % 256
    ELSE ((pixel.lo \div (2 ^ n)) + (pixel.hi % (2 ^ n)) * (2 ^ (16 - n))) % 256

\* A cast that saturates at 255 instead of wrapping.
AsU8Saturating(x) == IF x > 255 THEN 255 ELSE x

\* `x as u8`.
AsU8(x) == x % 256

\* The loop without its guard: every sample is divided.
AlwaysDivide(a) == a >= 0

\* The guard `if a > 0u32` around the three divisions.
NeedsDivide(a) == a > 0

\* u32 division: a zero divisor panics.
UDiv(n, d) == IF d = 0 THEN [panic |-> TRUE, v |-> 0] ELSE [panic |-> FALSE, v |-> n \div d]

\* The division rounding to nearest instead of truncating.
UnpremultiplyRounded(channel, a) == UDiv(channel * 255 + a \div 2, a)

\* `channel * 255u32 / a`.
Unpremultiply(channel, a) == UDiv(channel * 255, a)

\* The four bytes pushed for one pixel, in push order.
PushOrder(r, g, b, a) == <<r, g, b, a>>

\* One iteration of the loop over the canvas buffer.
ConvertPixel(pixel) ==
    LET a == ShiftMask(pixel, 24)
        r == ShiftMask(pixel, 16)
        g == ShiftMask(pixel, 8)
        b == ShiftMask(pixel, 0)
        keep(c) == [panic |-> FALSE, v |-> c]
        r2 == IF NeedsDivide(a) THEN Unpremultiply(r, a) ELSE keep(r)
        g2 == IF NeedsDivide(a) THEN Unpremultiply(g, a) ELSE keep(g)
        b2 == IF NeedsDivide(a) THEN Unpremultiply(b, a) ELSE keep(b)
    IN  [panic |-> r2.panic \/ g2.panic \/ b2.panic,
         divided |-> NeedsDivide(a),
         bytes |-> PushOrder(AsU8(r2.v), AsU8(g2.v), AsU8(b2.v), AsU8(a))]

(***************************************************************************)
(* Buffers.  The canvas buffer holds width*height samples and the output   *)
(* four bytes per sample.  A buffer is its length and its content at the   *)
(* indices the model follows (all of them for a small canvas, the first    *)
(* and the last for the 400x256 one), indices counted from 0.              *)
(***************************************************************************)
Buffer(n, content) == [len |-> n, at |-> content]

\* The index of the pixel whose bytes land at output index j.
SourceIndex(j) == j \div 4

\* The whole loop: output byte j is byte j%4 of the conversion of pixel j/4.
ConvertBuffer(buf) ==
    LET idx == { 4 * i + k : i \in DOMAIN buf.at, k \in 0..3 }
    IN  [panic |-> \E i \in DOMAIN buf.at : ConvertPixel(buf.at[i]).panic,
         divided |-> { i \in DOMAIN buf.at : ConvertPixel(buf.at[i]).divided },
         output |-> Buffer(buf.len * 4,
                           [j \in idx |-> ConvertPixel(buf.at[SourceIndex(j)]).bytes[(j % 4) + 1]])]

\* The encoder given the dimensions the wrong way round.
EncoderSwapped(canvas) ==
    [width |-> canvas.height, height |-> canvas.width,
     color |-> "Rgba", depth |-> "Eight"]

\* png::Encoder::new(w, width, height), set_color, set_depth.
Encoder(canvas) ==
    [width |-> canvas.width, height |-> canvas.height,
     color |-> "Rgba", depth |-> "Eight"]

\* The bytes in `file` once header and image data are written.
PngFile(header, output) ==
    <<[chunk |-> "IHDR", header |-> Some(header), data |-> None],
      [chunk |-> "IDAT", header |-> None, data |-> Some(output)],
      [chunk |-> "IEND", header |-> None, data |-> None]>>

\* `.unwrap()` on the Result: the error goes up as a panic.
UnwrapResult(res) == [panic |-> ~res.ok, vec |-> res.file]

\* `.unwrap_or_else(|_| Vec::new())` on the Result of canvas_to_png.
UnwrapOrElse(res) ==
    [panic |-> FALSE, vec |-> IF res.ok THEN res.file ELSE <<>>]

(***************************************************************************)
(* The time gate (time.rs).  The clock's instant is its milliseconds since *)
(* the epoch.  The client's time (milliseconds) and offset (minutes, as    *)
(* JavaScript's getTimezoneOffset gives them) are i64 values a request     *)
(* sets freely.  The model checker's integers are 32 bits wide, so an i64  *)
(* is kept as two limbs, hi * Limb + lo with both of one sign; Limb is ten *)
(* days in milliseconds, a multiple of the minutes and of the milliseconds *)
(* of a day, so that a time of day depends on lo alone.                    *)
(***************************************************************************)
MsPerSecond == 1000
MsPerMinute == 60000
MsPerHour == 3600000
MsPerDay == 86400000
MinutesPerDay == 1440

Abs(x) == IF x < 0 THEN 0 - x ELSE x
Min(x, y) == IF x <= y THEN x ELSE y

Limb == 864000000
I64(h, l) == [hi |-> h, lo |-> l]
Wide(n) == I64(0, n)

\* Limbs of one sign, the low one below Limb in magnitude.
Norm(h, l) ==
    LET c == IF l >= Limb THEN I64(h + 1, l - Limb)
             ELSE IF l <= 0 - Limb THEN I64(h - 1, l + Limb)
             ELSE I64(h, l)
    IN  IF c.hi > 0 /\ c.lo < 0 THEN I64(c.hi - 1, c.lo + Limb)
        ELSE IF c.hi < 0 /\ c.lo > 0 THEN I64(c.hi + 1, c.lo - Limb)
        ELSE c

WSub(x, y) == Norm(x.hi - y.hi, x.lo - y.lo)
WLess(x, y) == x.hi < y.hi \/ (x.hi = y.hi /\ x.lo < y.lo)
WAbs(x) == I64(Abs(x.hi), Abs(x.lo))

\* chrono's ranges: a TimeDelta holds at most i64::MAX milliseconds, which is
\* 153722867280912 minutes; a DateTime<Utc> lies between the first minute of
\* the year -262143 and the last one of the year 262142, in minutes since the
\* epoch -138910021920 and 136837781279.
MaxDeltaMinutes == I64(177919, 851280912)
MinDateMinutes == I64(-160, -670021920)
MaxDateMinutes == I64(158, 325781279)
MinTimestampMillis == I64(-9646529, -259200000)
MaxTimestampMillis == I64(9502623, 604799999)

\* TimeDelta::try_minutes: None when the minutes do not fit a TimeDelta.
try_minutes(offset) ==
    IF WLess(MaxDeltaMinutes, WAbs(offset)) THEN None ELSE Some(offset)

\* TimeDelta::minutes: panics where try_minutes gives None.
minutes(offset) == [panic |-> try_minutes(offset) = None, some |-> try_minutes(offset)]

\* DateTime::checked_sub_signed of a delta in minutes from an instant of one
\* limb: None when the result leaves the range of DateTime.  The result is
\* kept as its time of day in milliseconds, which is all Timelike reads.
checked_sub_signed(instant, delta) ==
    LET minute == WSub(Wide(instant \div MsPerMinute), delta)
    IN  IF WLess(minute, MinDateMinutes) \/ WLess(MaxDateMinutes, minute) THEN None
        ELSE Some((instant - (delta.lo % MinutesPerDay) * MsPerMinute) % MsPerDay)

\* Lines of time-zones.txt, each split as the parser splits it.
TimeZoneLines ==
    <<[sign |-> "+", hour |-> 0, minute |-> 0],
      [sign |-> "-", hour |-> 6, minute |-> 0],
      [sign |-> "+", hour |-> 5, minute |-> 30]>>

\* The value OFFSETS.get_or_init computes: offsets are negated.
valid_time_offsets ==
    [i \in 1..Len(TimeZoneLines) |->
        LET l == TimeZoneLines[i]
            sign == IF l.sign = "+" THEN 1 ELSE -1
        IN  (-1) * sign * (l.hour * 60 + l.minute)]

\* Vec<i64>::contains(&offset)
Contains(seq, x) == \E i \in 1..Len(seq) : Wide(seq[i]) = x

\* Timelike on a time of day.
SecondOfDay(t) == (t % MsPerDay) \div MsPerSecond
Hour24(t) == (t % MsPerDay) \div MsPerHour
Hour12(t) == IF Hour24(t) % 12 = 0 THEN 12 ELSE Hour24(t) % 12
MinuteOf(t) == ((t % MsPerDay) \div MsPerMinute) % 60

\* with_hour(h).with_minute(MINUTE).with_second(30) keeps the date and the
\* sub-second part of `time`, so its difference to `time` is whole seconds.
DeltaTo(hour, time) == Abs((hour * 3600 + MINUTE * 60 + 30) - SecondOfDay(time))

\* The comparison with the leeway left out on both sides.
WithinHalfMinute(delta) == delta <= 30

\* delta <= TimeDelta::try_seconds(30 + CLIENT_LEEWAY)?
WithinLeeway(delta) == delta <= 30 + CLIENT_LEEWAY

\* valid_time_in_zone(now, offset): every `?` of the closure gives false.
valid_time_in_zone(now, offset) ==
    LET delta == try_minutes(offset)
    IN  IF delta = None THEN FALSE
        ELSE LET time == checked_sub_signed(now, delta[1])
             IN  IF time = None THEN FALSE
                 ELSE WithinLeeway(Min(DeltaTo(HOUR, time[1]), DeltaTo(12 + HOUR, time[1])))

\* The drift check with the bound itself refused.
DriftAtLeast(now, time) == time.hi # 0 \/ Abs(now - time.lo) >= MaxDriftMs

\* now.timestamp_millis().abs_diff(time) > 15_000.  The clock's instant has
\* one limb, so a time of two limbs is further away than that.
DriftTooLarge(now, time) == time.hi # 0 \/ Abs(now - time.lo) > MaxDriftMs

\* DateTime::from_timestamp_millis: None outside the range of DateTime.
from_timestamp_millis(time) ==
    IF WLess(time, MinTimestampMillis) \/ WLess(MaxTimestampMillis, time) THEN None
    ELSE Some(time)

Returned(some) == [panic |-> FALSE, some |-> some]
Panicked == [panic |-> TRUE, some |-> FALSE]

\* verify_time(time, offset), with `now` the clock it reads: whether it
\* returns Some(()) or None, or panics.  Past the drift check `time` is
\* within 15 s of the clock and has one limb.
verify_time(time, offset, now) ==
    IF ~Contains(valid_time_offsets, offset) THEN Returned(FALSE)
    ELSE IF ~valid_time_in_zone(now, offset) THEN Returned(FALSE)
    ELSE IF DriftTooLarge(now, time) THEN Returned(FALSE)
    ELSE LET stamp == from_timestamp_millis(time)
             delta == minutes(offset)
         IN  IF stamp = None THEN Returned(FALSE)
             ELSE IF delta.panic THEN Panicked
             ELSE LET client == checked_sub_signed(stamp[1].lo, delta.some[1])
                  IN  IF client = None THEN Returned(FALSE)
                      ELSE Returned(~(Hour12(client[1]) # HOUR \/ MinuteOf(client[1]) # MINUTE))

(***************************************************************************)
(* Query strings, as the tokens the handler tells apart: an ampersand, a   *)
(* run of characters that parses as i64, and a run that does not.          *)
(***************************************************************************)
Amp == [t |-> "amp", v |-> 0]
Num(n) == [t |-> "int", v |-> n]
Word == [t |-> "word", v |-> 0]

\* str::split_once("&"): the parts around the first ampersand.
SplitOnce(q) ==
    LET amps == { i \in 1..Len(q) : q[i] = Amp }
    IN  IF amps = {} THEN None
        ELSE LET i == CHOOSE k \in amps : \A m \in amps : k <= m
             IN  Some(<<SubSeq(q, 1, i - 1), SubSeq(q, i + 1, Len(q))>>)

\* str::parse::<i64>().ok()
ParseI64(part) ==
    IF Len(part) = 1 /\ part[1].t = "int" THEN Some(part[1].v) ELSE None

\* The `parts` of verified_cat: Some((time, offset)) or None.
QueryParts(query) ==
    IF query = None THEN None
    ELSE LET split == SplitOnce(query[1])
         IN  IF split = None THEN None
             ELSE LET time == ParseI64(split[1][1])
                      offset == ParseI64(split[1][2])
                  IN  IF time = None \/ offset = None THEN None
                      ELSE Some(<<time[1], offset[1]>>)

\* 02:22:10 on the second day of the epoch, and a minute later.
NowSamples == {94930000, 95000000}

QuerySamples ==
    {None,
     Some(<<Num(94930500)>>),
     Some(<<Num(94930500), Amp, Word>>),
     Some(<<Num(94930500), Amp, Num(0)>>),
     Some(<<Num(94930500), Amp, Num(7)>>),
     Some(<<Num(94900000), Amp, Num(0)>>),
     Some(<<Num(94930500), Amp, Num(0), Amp, Num(0)>>)}

(***************************************************************************)
(* The scene (draw.rs): shapes, local frames and the order of the paint    *)
(* calls of draw_cat and draw_head.                                        *)
(***************************************************************************)

\* base_transform of purchase_cat.
BaseTransforms ==
    { Then(Then(Scale(1100 + j1, 1100 + j2), Rotation((u1 + u2) - 180)),
           Translation(1950 + sx, 1240 + sy)) :
        j1 \in ScaleJitterSamples, j2 \in ScaleJitterSamples,
        u1 \in HalfTurnSamples, u2 \in HalfTurnSamples,
        sx \in ShiftXSamples, sy \in ShiftYSamples }

\* The tail: 1 in 20 a straight line (1 in 10 of those five times as long),
\* otherwise a cubic or a quadratic curve, mirrored by `sign`.
TailPaths ==
    LET x == 600
        y == 0
        straight == { <<MoveTo(x, y), LineTo(x + scale * 400, y + scale * (-300))>> :
                        scale \in {5, 1} }
        cubic == { <<MoveTo(x, y),
                     CubicTo(x + 25 * 12, y + 25 * sign * 0,
                             x + 25 * (-5), y + 25 * sign * 10,
                             x + 25 * 15, y + 25 * sign * 5)>> : sign \in TailSignSamples }
        quad == { <<MoveTo(x, y),
                    QuadTo(x + 30 * 12, y + 30 * sign * 0,
                           x + 30 * 5, y + 30 * sign * 12)>> : sign \in TailSignSamples }
    IN  straight \cup cubic \cup quad

NeckPaths == { Rect(0 - r, 0 - r, r * 2, r * 2) \o <<Close>> : r \in NeckSamples }

BodyPaths ==
    { ellipse(0, 0, w, h) \o <<Close>> : w \in BodyWidthSamples, h \in BodyHeightSamples }

\* One path, built once before the loop over `legs`.
LegPaths == { ellipse(0, 0, w, h) : w \in LegWidthSamples, h \in LegHeightSamples }

EarsPaths ==
    { <<MoveTo(60, -250), LineTo(210 + jx, -360 + jy), LineTo(210, -170), Close,
        MoveTo(-60, -250), LineTo(0 - (210 + jx), -360 + jy), LineTo(-210, -170), Close>> :
        jx \in EarJitterSamples, jy \in EarJitterSamples }

HeadPath == ellipse(0, 0, 250, 240) \o <<Close>>

EyesPaths == { ellipse(90, -70, r, r) \o ellipse(-90, -70, r, r) \o <<Close>> : r \in EyeSamples }

NosePaths ==
    { <<MoveTo(0 - (40 + p), 50),
        CubicTo(0 - (90 + c), -30, 90 + c, -30, 40 + p, 50),
        CubicTo(10, 90 + b, -10, 90 + b, 0 - (40 + p), 50),
        Close>> :
        p \in NoseJitterSamples, c \in NoseJitterSamples, b \in NoseJitterSamples }

\* The array with the rotations of the left and the right legs exchanged.
legs_mirrored ==
    <<[x |-> -450, y |-> 210, rot |-> -20],
      [x |-> -250, y |-> 260, rot |-> -5],
      [x |-> 250, y |-> 260, rot |-> 5],
      [x |-> 450, y |-> 210, rot |-> 20]>>

\* The array `legs`: ((x, y), rot).
legs ==
    <<[x |-> -450, y |-> 210, rot |-> 20],
      [x |-> -250, y |-> 260, rot |-> 5],
      [x |-> 250, y |-> 260, rot |-> -5],
      [x |-> 450, y |-> 210, rot |-> -20]>>

LegName(i) == <<"leg1", "leg2", "leg3", "leg4">>[i]

NeckLocal == Then(Rotation(-30), Translation(-450, -190))
LegLocal(i) == Then(Rotation(legs[i].rot), Translation(legs[i].x, legs[i].y))
HeadLocal == Translation(-590, -440)

\* One call of the sequence: what is called, on which shape, in which frame.
Instr(kind, part, path, local, style, src) ==
    [kind |-> kind, part |-> part, path |-> path, local |-> local,
     style |-> style, src |-> src]
Paths(fn) == Instr(fn, "", "", None, "none", "none")
SetTransform(local) == Instr("set_transform", "", "", local, "none", "none")
Stroke(part, path, style) == Instr("stroke", part, path, None, style, "black")
Fill(part, path, src) == Instr("fill", part, path, None, "none", src)

\* The body of the loop `for ((x, y), rot) in legs`.
LegCalls(i) ==
    <<SetTransform(Some(LegLocal(i))),
      Stroke(LegName(i), "leg", "default"),
      Fill(LegName(i), "leg", "random")>>

\* draw_head: the four shapes are built, then painted.
draw_head ==
    <<Paths("draw_head"),
      Stroke("ears", "ears", "default"),
      Fill("ears", "ears", "random"),
      Stroke("head", "head", "default"),
      Fill("head", "head", "random"),
      Fill("eyes", "eyes", "black"),
      Fill("nose", "nose", "black")>>

\* draw_cat with the head group painted before the body.
draw_cat_head_first ==
    <<Paths("draw_cat"),
      SetTransform(None),
      Stroke("tail", "tail", "tail"),
      SetTransform(Some(NeckLocal)),
      Stroke("neck", "neck", "default"),
      Fill("neck", "neck", "random")>>
    \o LegCalls(1) \o LegCalls(2) \o LegCalls(3) \o LegCalls(4)
    \o <<SetTransform(Some(HeadLocal))>>
    \o draw_head
    \o <<SetTransform(None),
         Stroke("body", "body", "default"),
         Fill("body", "body", "random"),
         SetTransform(None)>>

\* draw_cat: the four shapes are built, then the calls on the canvas.
draw_cat ==
    <<Paths("draw_cat"),
      SetTransform(None),
      Stroke("tail", "tail", "tail"),
      SetTransform(Some(NeckLocal)),
      Stroke("neck", "neck", "default"),
      Fill("neck", "neck", "random")>>
    \o LegCalls(1) \o LegCalls(2) \o LegCalls(3) \o LegCalls(4)
    \o <<SetTransform(None),
         Stroke("body", "body", "default"),
         Fill("body", "body", "random"),
         SetTransform(Some(HeadLocal))>>
    \o draw_head
    \o <<SetTransform(None)>>

\* The local frame applied on top of the active transform instead of `base`.
TransformArgNested(local, b, current) ==
    IF local = None THEN b ELSE Then(local[1], current)

\* The transform handed to set_transform: the local frame mapped through
\* `base`, or `base` itself.  `current` is the canvas's active transform.
TransformArg(local, b, current) ==
    IF local = None THEN b ELSE Then(local[1], b)

\* OnceLock::get_or_init on a cell, with the value its closure computes.
get_or_init(cell, value) == IF cell = None THEN Some(value) ELSE cell

\* One canvas shared by every call.
SharedCanvasId(next) == 1

\* DrawTarget::new(width, height): the canvas a render call creates.
NewCanvasId(next) == next
DrawTargetNew(id, width, height) ==
    [id |-> id, width |-> width, height |-> height, transform |-> Identity,
     data |-> None]

(***************************************************************************)
(* State.                                                                  *)
(***************************************************************************)
VARIABLES
    pc,        \* where the request being served stands
    ip,        \* the next call of draw_cat
    req,       \* the request being served: route, query, the clock read
    render,    \* the drawing function serving it
    served,    \* requests finished
    nextId,    \* canvases created so far, plus one
    dt,        \* the DrawTarget the drawing function owns
    base,      \* base_transform
    shapes,    \* the paths built so far, by name
    ops,       \* the paint calls issued on the canvas, in order
    lastOp,    \* the last paint call, with its arguments
    fills,     \* the sources of the last two fills, older first
    life,      \* each canvas's stage: fresh, mutated, serialized, discarded
    FONT,      \* static FONT: OnceLock<Handle>
    STROKE,    \* static STROKE: OnceLock<StrokeStyle>
    png,       \* canvas_to_png: its canvas, encoder, output and Result
    result,    \* the Vec<u8> the drawing function returned
    response,  \* the response sent
    OFFSETS,   \* static OFFSETS: OnceLock<Vec<i64>>
    gate,      \* a call of the time gate: its arguments and what it returned
    tasks,     \* the handlers running on the worker threads, by thread
    canvases,  \* the canvases on the heap, by id: owner and callers
    running,   \* per OnceLock, the thread running its closure
    stored     \* per OnceLock, the number of values stored in it so far

vars ==
    <<pc, ip, req, render, served, nextId, dt, base, shapes, ops, lastOp,
      fills, life, FONT, STROKE, png, result, response, OFFSETS, gate, tasks,
      canvases, running, stored>>

cells == <<FONT, STROKE, OFFSETS>>
timeGate == <<gate>>
workers == <<tasks, canvases, running, stored>>
scene == <<ip, base, shapes>>
canvasLog == <<ops, lastOp, fills>>
serial == <<png, result>>

NoShapes == [n \in {} |-> <<>>]
CellNames == {"FONT", "STROKE", "OFFSETS"}

Init ==
    /\ pc = "idle"
    /\ ip = 0
    /\ req = None
    /\ render = ""
    /\ served = 0
    /\ nextId = 1
    /\ dt = None
    /\ base = None
    /\ shapes = NoShapes
    /\ ops = <<>>
    /\ lastOp = None
    /\ fills = <<>>
    /\ life = [n \in {} |-> ""]
    /\ FONT = None
    /\ STROKE = None
    /\ png = None
    /\ result = None
    /\ response = None
    /\ OFFSETS = None
    /\ gate = None
    /\ tasks = <<>>
    /\ canvases = <<>>
    /\ running = [c \in CellNames |-> None]
    /\ stored = [c \in CellNames |-> 0]

\* A request arrives: what the previous one left behind is gone.
Accept(route, query, now, fn) ==
    /\ pc = "idle"
    /\ served < MaxRequests
    /\ req' = Some([route |-> route, query |-> query, now |-> now])
    /\ render' = fn
    /\ pc' = fn
    /\ ip' = 0
    /\ dt' = None
    /\ base' = None
    /\ shapes' = NoShapes
    /\ ops' = <<>>
    /\ lastOp' = None
    /\ fills' = <<>>
    /\ png' = None
    /\ result' = None
    /\ response' = None
    /\ UNCHANGED <<served, nextId, life, FONT, STROKE, timeGate, workers>>

(***************************************************************************)
(* Handlers (main.rs).                                                     *)
(***************************************************************************)

\* The decision of verified_cat: the creature only for a well-formed query
\* that verify_time accepts.
Gate(query, now) ==
    LET parts == QueryParts(query)
    IN  IF parts = None THEN "out_of_stock"
        ELSE LET verified == verify_time(Wide(parts[1][1]), Wide(parts[1][2]), now)
             IN  IF verified.panic THEN "panicked"
                 ELSE IF ~verified.some THEN "out_of_stock"
                 ELSE "purchase_cat"

\* GET /cat
verified_cat ==
    \E query \in QuerySamples, now \in NowSamples :
        /\ Accept("/cat", query, now, Gate(query, now))
        /\ OFFSETS' = IF QueryParts(query) = None THEN OFFSETS
                      ELSE get_or_init(OFFSETS, valid_time_offsets)

\* GET /torna
nocat == Accept("/torna", None, 0, "out_of_stock") /\ UNCHANGED OFFSETS

\* GET /discountcat
freecat == Accept("/discountcat", None, 0, "purchase_cat") /\ UNCHANGED OFFSETS

\* The tuple a handler returns, sent as the response.
Response(body) == [status |-> 200, content_type |-> "image/png", body |-> body]

respond ==
    /\ pc = "respond"
    /\ response' = Some(Response(result[1]))
    /\ served' = served + 1
    /\ pc' = "idle"
    /\ UNCHANGED <<req, render, nextId, dt, scene, canvasLog, life, cells, serial>>
    /\ UNCHANGED <<timeGate, workers>>

\* A panic unwinds the handler's task: its canvas is dropped and the
\* connection closes without a response.
task_aborted ==
    /\ pc = "panicked"
    /\ served' = served + 1
    /\ pc' = "idle"
    /\ UNCHANGED <<req, render, nextId, dt, scene, canvasLog, life, cells, serial, response>>
    /\ UNCHANGED <<timeGate, workers>>

(***************************************************************************)
(* purchase_cat, draw_cat and draw_head (draw.rs).                         *)
(***************************************************************************)
Discard(l, id) == [l EXCEPT ![id] = "discarded"]
Touch(l, id) == (id :> "mutated") @@ l
Create(l, id) == (id :> "fresh") @@ l

\* A paint call as issued: its arguments and the canvas state it meets.
Op(kind, part, path, src, style, d) ==
    [kind |-> kind, part |-> part, path |-> path, src |-> src, style |-> style,
     options |-> DRAW, transform |-> d.transform, canvas |-> d.id]

Entry(kind, part, path) == [kind |-> kind, part |-> part, path |-> path]

LastTwo(seq) == IF Len(seq) <= 2 THEN seq ELSE SubSeq(seq, Len(seq) - 1, Len(seq))

\* let mut dt = DrawTarget::new(400, 256); let base_transform = ...
purchase_cat ==
    /\ pc = "purchase_cat"
    /\ \E b \in BaseTransforms : base' = Some(b)
    /\ dt' = Some(DrawTargetNew(NewCanvasId(nextId), CanvasWidth, CanvasHeight))
    /\ life' = Create(life, NewCanvasId(nextId))
    /\ nextId' = nextId + 1
    /\ pc' = "draw_cat"
    /\ ip' = 1
    /\ UNCHANGED <<req, render, served, shapes, canvasLog, cells, serial, response>>
    /\ UNCHANGED <<timeGate, workers>>

InDrawCat(kind) ==
    /\ pc = "draw_cat"
    /\ ip \in 1..Len(draw_cat)
    /\ draw_cat[ip].kind = kind

\* On to the next call; after the last one draw_cat returns, its paths are
\* dropped and purchase_cat goes on to canvas_to_png.
Return(sh) ==
    IF ip < Len(draw_cat)
    THEN pc' = pc /\ ip' = ip + 1 /\ shapes' = sh
    ELSE pc' = "canvas_to_png" /\ ip' = 0 /\ shapes' = NoShapes /\ base' = None

KeepBase == IF ip < Len(draw_cat) THEN base' = base ELSE TRUE

\* The blocks `let tail`, `let neck`, `let body`, `let leg`.
draw_cat_paths ==
    /\ InDrawCat("draw_cat")
    /\ \E tail \in TailPaths, neck \in NeckPaths, body \in BodyPaths, leg \in LegPaths :
         Return([tail |-> tail, neck |-> neck, body |-> body, leg |-> leg])
    /\ KeepBase
    /\ UNCHANGED <<req, render, served, nextId, dt, canvasLog, life, cells, serial, response>>
    /\ UNCHANGED <<timeGate, workers>>

\* The blocks `let ears`, `let head`, `let eyes`, `let nose` of draw_head.
draw_head_paths ==
    /\ InDrawCat("draw_head")
    /\ \E ears \in EarsPaths, eyes \in EyesPaths, nose \in NosePaths :
         Return([tail |-> shapes.tail, neck |-> shapes.neck, body |-> shapes.body,
                 leg |-> shapes.leg, ears |-> ears, head |-> HeadPath,
                 eyes |-> eyes, nose |-> nose])
    /\ KeepBase
    /\ UNCHANGED <<req, render, served, nextId, dt, canvasLog, life, cells, serial, response>>
    /\ UNCHANGED <<timeGate, workers>>

\* dt.set_transform(..)
dt_set_transform ==
    /\ InDrawCat("set_transform")
    /\ dt' = Some([dt[1] EXCEPT
                 !.transform = TransformArg(draw_cat[ip].local, base[1], dt[1].transform)])
    /\ life' = Touch(life, dt[1].id)
    /\ Return(shapes)
    /\ KeepBase
    /\ UNCHANGED <<req, render, served, nextId, canvasLog, cells, serial, response>>
    /\ UNCHANGED <<timeGate, workers>>

\* dt.stroke(&path, &BLACK, style, &DRAW): the tail's style is written in
\* place, every other stroke takes stroke().
dt_stroke ==
    /\ InDrawCat("stroke")
    /\ LET i == draw_cat[ip]
           cell == IF i.style = "tail" THEN STROKE ELSE get_or_init(STROKE, DefaultStroke)
           style == IF i.style = "tail" THEN TailStroke ELSE cell[1]
       IN  /\ STROKE' = cell
           /\ lastOp' = Some(Op("stroke", i.part, shapes[i.path], BLACK, Some(style), dt[1]))
           /\ ops' = Append(ops, Entry("stroke", i.part, i.path))
    /\ life' = Touch(life, dt[1].id)
    /\ Return(shapes)
    /\ KeepBase
    /\ UNCHANGED <<req, render, served, nextId, dt, fills, FONT, OFFSETS, serial, response>>
    /\ UNCHANGED <<timeGate, workers>>

\* dt.fill(&path, &random_color(), &DRAW) or dt.fill(&path, &BLACK, &DRAW)
dt_fill ==
    /\ InDrawCat("fill")
    /\ LET i == draw_cat[ip]
       IN  \E src \in (IF i.src = "random" THEN random_color ELSE {BLACK}) :
             /\ lastOp' = Some(Op("fill", i.part, shapes[i.path], src, None, dt[1]))
             /\ ops' = Append(ops, Entry("fill", i.part, i.path))
             /\ fills' = LastTwo(Append(fills, src))
    /\ life' = Touch(life, dt[1].id)
    /\ Return(shapes)
    /\ KeepBase
    /\ UNCHANGED <<req, render, served, nextId, dt, cells, serial, response>>
    /\ UNCHANGED <<timeGate, workers>>

(***************************************************************************)
(* out_of_stock (draw.rs).                                                 *)
(***************************************************************************)
Pad2(n) == <<(n \div 10) % 10, n % 10>>

\* The two texts, each with the range of its position.
Texts ==
    { [words |-> "come back at", hour |-> HOUR, minute |-> Pad2(MINUTE),
       x |-> 80, y |-> 250, size |-> 240],
      [words |-> "torna a", hour |-> HOUR, minute |-> Pad2(MINUTE),
       x |-> 2599, y |-> 250, size |-> 240] }

\* Option::unwrap / Result::unwrap: a panic on the empty case.
Unwrap(opt) == [panic |-> opt = None, some |-> opt]

\* What SystemSource::select_by_postscript_name and Handle::load can give:
\* the font, or an error when the host does not have it.
FontLookups == {None, Some("DejaVuSans")}

\* let mut dt = DrawTarget::new(400, 256);
out_of_stock_new ==
    /\ pc = "out_of_stock"
    /\ dt' = Some(DrawTargetNew(NewCanvasId(nextId), CanvasWidth, CanvasHeight))
    /\ life' = Create(life, NewCanvasId(nextId))
    /\ nextId' = nextId + 1
    /\ pc' = "FONT"
    /\ UNCHANGED <<req, render, served, scene, canvasLog, cells, serial, response>>
    /\ UNCHANGED <<timeGate, workers>>

\* FONT.get_or_init(|| select_by_postscript_name("DejaVuSans").unwrap()):
\* a panic in the closure leaves the cell empty.
out_of_stock_font ==
    /\ pc = "FONT"
    /\ \E found \in FontLookups :
         LET got == IF FONT = None THEN Unwrap(found) ELSE Unwrap(FONT)
         IN  IF got.panic
             THEN /\ pc' = "panicked"
                  /\ dt' = None
                  /\ life' = Discard(life, dt[1].id)
                  /\ FONT' = FONT
             ELSE /\ pc' = "draw_text"
                  /\ FONT' = got.some
                  /\ UNCHANGED <<dt, life>>
    /\ UNCHANGED <<req, render, served, nextId, scene, canvasLog, STROKE, OFFSETS, serial, response>>
    /\ UNCHANGED <<timeGate, workers>>

\* The text and its position are picked, then
\* dt.draw_text(&font.load().unwrap(), 24., &text, Point::new(x, y), &BLACK, &DRAW)
out_of_stock_text ==
    /\ pc = "draw_text"
    /\ \E text \in Texts, loaded \in FontLookups :
         IF Unwrap(loaded).panic
         THEN /\ pc' = "panicked"
              /\ dt' = None
              /\ life' = Discard(life, dt[1].id)
              /\ UNCHANGED canvasLog
         ELSE /\ pc' = "canvas_to_png"
              /\ lastOp' = Some(Op("text", "text", text, BLACK, None, dt[1]))
              /\ ops' = Append(ops, Entry("text", "text", "text"))
              /\ life' = Touch(life, dt[1].id)
              /\ UNCHANGED <<dt, fills>>
    /\ UNCHANGED <<req, render, served, nextId, scene, cells, serial, response>>
    /\ UNCHANGED <<timeGate, workers>>

(***************************************************************************)
(* canvas_to_png (draw.rs).                                                *)
(***************************************************************************)

\* Premultiplied samples the rasteriser can leave in the buffer.
RasterSamples == {Pixel(0, 0, 0, 0), Pixel(255, 200, 100, 255), Pixel(128, 64, 50, 128)}

\* canvas.get_data().  The rasteriser's output is outside the model: the
\* samples it left at the first and the last index are fixed when the
\* buffer is read.  A canvas built with its data has just that data.
GetData(canvas) ==
    IF canvas.data = None
    THEN { Buffer(canvas.width * canvas.height, f) :
             f \in [{0, canvas.width * canvas.height - 1} -> RasterSamples] }
    ELSE { canvas.data[1] }

Ok(file) == [ok |-> TRUE, file |-> file]
Err == [ok |-> FALSE, file |-> <<>>]

\* canvas_to_png(dt): the canvas moves into the call.
canvas_to_png ==
    /\ pc = "canvas_to_png"
    /\ png' = Some([canvas |-> dt[1], encoder |-> Encoder(dt[1]),
                    header |-> None, buf |-> None, divided |-> {},
                    output |-> None, res |-> None])
    /\ dt' = None
    /\ life' = [life EXCEPT ![dt[1].id] = "serialized"]
    /\ pc' = "write_header"
    /\ UNCHANGED <<req, render, served, nextId, scene, canvasLog, cells, result, response>>
    /\ UNCHANGED <<timeGate, workers>>

\* let mut writer = encoder.write_header()?;
write_header ==
    /\ pc = "write_header"
    /\ \E ok \in BOOLEAN :
         IF ok
         THEN /\ png' = Some([png[1] EXCEPT !.header = Some(png[1].encoder)])
              /\ pc' = "write_image_data"
         ELSE /\ png' = Some([png[1] EXCEPT !.res = Some(Err)])
              /\ pc' = "return"
    /\ UNCHANGED <<req, render, served, nextId, dt, scene, canvasLog, life, cells,
                   result, response>>
    /\ UNCHANGED <<timeGate, workers>>

\* The loop over canvas.get_data(), then writer.write_image_data(&output)?
write_image_data ==
    /\ pc = "write_image_data"
    /\ \E buf \in GetData(png[1].canvas), ok \in BOOLEAN :
         LET conv == ConvertBuffer(buf)
         IN  IF conv.panic
             THEN /\ pc' = "panicked"
                  /\ png' = Some([png[1] EXCEPT !.buf = Some(buf)])
                  /\ life' = Discard(life, png[1].canvas.id)
             ELSE /\ pc' = "return"
                  /\ png' = Some([png[1] EXCEPT
                               !.buf = Some(buf),
                               !.divided = conv.divided,
                               !.output = Some(conv.output),
                               !.res = Some(IF ok
                                            THEN Ok(PngFile(png[1].header[1], conv.output))
                                            ELSE Err)])
                  /\ life' = life
    /\ UNCHANGED <<req, render, served, nextId, dt, scene, canvasLog, cells,
                   result, response>>
    /\ UNCHANGED <<timeGate, workers>>

\* canvas_to_png returns and drops the canvas; the caller applies
\* .unwrap_or_else(|_| Vec::new()) and returns the bytes.
canvas_to_png_return ==
    /\ pc = "return"
    /\ LET got == UnwrapOrElse(png[1].res[1])
       IN  IF got.panic
           THEN pc' = "panicked" /\ result' = None
           ELSE pc' = "respond" /\ result' = Some(got.vec)
    /\ life' = Discard(life, png[1].canvas.id)
    /\ UNCHANGED <<req, render, served, nextId, dt, scene, canvasLog, cells, png, response>>
    /\ UNCHANGED <<timeGate, workers>>

(***************************************************************************)
(* The server: requests served one after another.                          *)
(***************************************************************************)
Next ==
    \/ verified_cat
    \/ nocat
    \/ freecat
    \/ purchase_cat
    \/ draw_cat_paths
    \/ draw_head_paths
    \/ dt_set_transform
    \/ dt_stroke
    \/ dt_fill
    \/ out_of_stock_new
    \/ out_of_stock_font
    \/ out_of_stock_text
    \/ canvas_to_png
    \/ write_header
    \/ write_image_data
    \/ canvas_to_png_return
    \/ respond
    \/ task_aborted

Spec == Init /\ [][Next]_vars

(***************************************************************************)
(* canvas_to_png on its own, on small canvases built with their data, as   *)
(* a test of the serialiser calls it.                                      *)
(***************************************************************************)
SyntheticSamples ==
    {Pixel(0, 0, 0, 0), Pixel(128, 64, 0, 0), Pixel(255, 255, 100, 0),
     Pixel(128, 128, 17, 128), Pixel(200, 100, 50, 25), Pixel(1, 255, 0, 0),
     Pixel(2, 3, 1, 2), Pixel(0, 255, 0, 9)}

SyntheticCanvases ==
    { [id |-> 1, width |-> n, height |-> 1, transform |-> Identity,
       data |-> Some(Buffer(n, f))] :
        n \in 1..MaxPixels, f \in UNION { [0..(m - 1) -> SyntheticSamples] : m \in 1..MaxPixels } }

InitPng ==
    /\ pc = "canvas_to_png"
    /\ ip = 0
    /\ req = None
    /\ render = "canvas_to_png"
    /\ served = 0
    /\ nextId = 2
    /\ dt \in { Some(c) : c \in { k \in SyntheticCanvases : DOMAIN k.data[1].at = 0..(k.width - 1) } }
    /\ base = None
    /\ shapes = NoShapes
    /\ ops = <<>>
    /\ lastOp = None
    /\ fills = <<>>
    /\ life = (1 :> "mutated")
    /\ FONT = None
    /\ STROKE = None
    /\ png = None
    /\ result = None
    /\ response = None
    /\ OFFSETS = None
    /\ gate = None
    /\ tasks = <<>>
    /\ canvases = <<>>
    /\ running = [c \in CellNames |-> None]
    /\ stored = [c \in CellNames |-> 0]

NextPng ==
    \/ canvas_to_png
    \/ write_header
    \/ write_image_data
    \/ canvas_to_png_return

SpecPng == InitPng /\ [][NextPng]_vars

(***************************************************************************)
(* The time gate on its own: verify_time and valid_time_in_zone called    *)
(* with a client time, an offset and a reading of the clock.               *)
(***************************************************************************)

\* Readings of the clock on the second day of the epoch: 02:22:10,
\* 02:21:59.000, 02:21:58.999, 02:23:01.999, 02:23:02.000, 02:23:20,
\* 08:22:10 and 14:22:30.
ClockSamples ==
    {94930000, 94919000, 94918999, 94981999, 94982000, 95000000, 116530000, 138150000}

\* Offsets: the three listed ones, two that are not listed, one some 4900
\* years of minutes away, and four that TimeDelta or DateTime cannot hold.
OffsetSamples ==
    {Wide(0), Wide(360), Wide(-330), Wide(7), Wide(1440), I64(3, 360),
     I64(200, 0), I64(-200, 0), I64(200000, 0), I64(-200000, 0)}

\* Client times: around 02:22:10 of the second day, exactly 15 s and 15.001 s
\* after it, 15 s before it, around 08:22:10, and ten days later.
TimeSamples ==
    {Wide(94930500), Wide(94945000), Wide(94945001), Wide(94915000),
     Wide(116530500), Wide(94900000), I64(1, 94930500)}

GateCall(fn, time, offset, now) ==
    [fn |-> fn, time |-> time, offset |-> offset, now |-> now, out |-> None]

serving ==
    <<pc, ip, req, render, served, nextId, dt, base, shapes, ops, lastOp, fills,
      life, png, result, response>>

InitTime ==
    /\ gate \in
         { Some(GateCall("verify_time", time, offset, now)) :
             time \in TimeSamples, offset \in OffsetSamples, now \in ClockSamples }
         \cup
         { Some(GateCall("valid_time_in_zone", Wide(0), offset, now)) :
             offset \in OffsetSamples, now \in ClockSamples }
    /\ pc = "idle"
    /\ ip = 0
    /\ req = None
    /\ render = ""
    /\ served = 0
    /\ nextId = 1
    /\ dt = None
    /\ base = None
    /\ shapes = NoShapes
    /\ ops = <<>>
    /\ lastOp = None
    /\ fills = <<>>
    /\ life = [n \in {} |-> ""]
    /\ FONT = None
    /\ STROKE = None
    /\ png = None
    /\ result = None
    /\ response = None
    /\ OFFSETS = None
    /\ tasks = <<>>
    /\ canvases = <<>>
    /\ running = [c \in CellNames |-> None]
    /\ stored = [c \in CellNames |-> 0]

\* verify_time(time, offset)
call_verify_time ==
    /\ gate # None
    /\ gate[1].fn = "verify_time"
    /\ gate[1].out = None
    /\ gate' = Some([gate[1] EXCEPT
                   !.out = Some(verify_time(gate[1].time, gate[1].offset, gate[1].now))])
    /\ OFFSETS' = get_or_init(OFFSETS, valid_time_offsets)
    /\ UNCHANGED <<serving, FONT, STROKE, workers>>

\* valid_time_in_zone(now, offset)
call_valid_time_in_zone ==
    /\ gate # None
    /\ gate[1].fn = "valid_time_in_zone"
    /\ gate[1].out = None
    /\ gate' = Some([gate[1] EXCEPT
                   !.out = Some(Returned(valid_time_in_zone(gate[1].now, gate[1].offset)))])
    /\ UNCHANGED <<serving, cells, workers>>

NextTime ==
    \/ call_verify_time
    \/ call_valid_time_in_zone

SpecTime == InitTime /\ [][NextTime]_vars

(***************************************************************************)
(* Handlers in parallel on the runtime's worker threads (#[tokio::main]).  *)
(* Each thread serves one request.  A step is a set_transform, the         *)
(* painting of one shape, or one step of a OnceLock; the paths and the     *)
(* random source of a render are locals of its thread.                     *)
(***************************************************************************)
MaxTasks == 2

Threads == 1..MaxTasks

\* A handler on its thread: the drawing function it ends in, where it
\* stands, the canvas it owns, the references it holds into the three cells
\* (each until the call it was taken for has returned), and the bytes it
\* returned.
Task(fn, at) ==
    [fn |-> fn, pc |-> at, ip |-> 0, dt |-> None, closure |-> FALSE, ready |-> FALSE,
     stroke |-> None, font |-> None, offsets |-> None, out |-> None]

\* A canvas on the heap: the thread that created it, the threads that called
\* set_transform, stroke, fill or draw_text on it, the number of those calls,
\* and the threads that read it for serialisation.
Canvas(owner) == [owner |-> owner, callers |-> {}, calls |-> 0, read |-> {}]

sequential ==
    <<pc, ip, req, render, served, dt, base, shapes, ops, lastOp, fills, life, png,
      result, response>>

InitPar ==
    /\ tasks = [t \in Threads |-> Task("", "idle")]
    /\ canvases = <<>>
    /\ running = [c \in CellNames |-> None]
    /\ stored = [c \in CellNames |-> 0]
    /\ FONT = None
    /\ STROKE = None
    /\ OFFSETS = None
    /\ nextId = 1
    /\ gate = None
    /\ pc = "idle"
    /\ ip = 0
    /\ req = None
    /\ render = ""
    /\ served = 0
    /\ dt = None
    /\ base = None
    /\ shapes = NoShapes
    /\ ops = <<>>
    /\ lastOp = None
    /\ fills = <<>>
    /\ life = [n \in {} |-> ""]
    /\ png = None
    /\ result = None
    /\ response = None

Set(t, task) == tasks' = [tasks EXCEPT ![t] = task]

\* Thread t serves the t-th request accepted.
Spawn(t, fn, at) ==
    /\ tasks[t].pc = "idle"
    /\ \A u \in 1..(t - 1) : tasks[u].pc # "idle"
    /\ Set(t, Task(fn, at))
    /\ UNCHANGED <<sequential, nextId, cells, timeGate, canvases, running, stored>>

\* GET /cat: verify_time, and with it valid_time_offsets(), is only called
\* for a query that parses.
spawn_verified_cat(t) ==
    \E query \in QuerySamples, now \in NowSamples :
        Spawn(t, Gate(query, now),
              IF QueryParts(query) = None THEN Gate(query, now) ELSE "OFFSETS")

\* GET /torna
spawn_nocat(t) == Spawn(t, "out_of_stock", "out_of_stock")

\* GET /discountcat
spawn_freecat(t) == Spawn(t, "purchase_cat", "purchase_cat")

\* The blocks that build the paths use locals only.
Local(i) == draw_cat[i].kind \in {"draw_cat", "draw_head"}

\* The first call on the canvas after the call at `i`, 0 when there is none.
NextCall(i) ==
    LET later == { j \in (i + 1)..Len(draw_cat) : ~Local(j) }
    IN  IF later = {} THEN 0 ELSE CHOOSE j \in later : \A k \in later : j <= k

\* let mut dt = DrawTarget::new(400, 256), in purchase_cat and out_of_stock.
task_new_canvas(t) ==
    /\ tasks[t].pc \in {"purchase_cat", "out_of_stock"}
    /\ LET id == NewCanvasId(nextId)
       IN  /\ canvases' = (id :> Canvas(t)) @@ canvases
           /\ Set(t, [tasks[t] EXCEPT
                        !.dt = Some(id),
                        !.offsets = None,
                        !.ip = IF tasks[t].pc = "purchase_cat" THEN NextCall(0) ELSE 0,
                        !.pc = IF tasks[t].pc = "purchase_cat" THEN "draw_cat" ELSE "FONT"])
    /\ nextId' = nextId + 1
    /\ UNCHANGED <<sequential, cells, timeGate, running, stored>>

\* `n` calls on the canvas the thread's `dt` refers to.
CallOn(t, n) ==
    canvases' = [canvases EXCEPT ![tasks[t].dt[1]] =
                    [@ EXCEPT !.callers = @ \cup {t}, !.calls = @ + n]]

\* The thread's next call of draw_cat is of this kind.
TaskAt(t, kinds) ==
    /\ tasks[t].pc = "draw_cat"
    /\ tasks[t].ip \in 1..Len(draw_cat)
    /\ draw_cat[tasks[t].ip].kind \in kinds

\* The thread is about to evaluate `&stroke()`.
NeedsStroke(t) ==
    /\ TaskAt(t, {"stroke"})
    /\ draw_cat[tasks[t].ip].style = "default"
    /\ ~tasks[t].ready

\* The stroke of a shape is followed at once by its fill.
FillFollows(i) ==
    /\ draw_cat[i].kind = "stroke"
    /\ i < Len(draw_cat)
    /\ draw_cat[i + 1].kind = "fill"
    /\ draw_cat[i + 1].part = draw_cat[i].part

\* On to the call after the one at `i`, or out of draw_cat.
Advance(task, i) ==
    IF NextCall(i) # 0
    THEN [task EXCEPT !.ip = NextCall(i), !.ready = FALSE, !.stroke = None]
    ELSE [task EXCEPT !.ip = 0, !.ready = FALSE, !.stroke = None,
                      !.pc = "canvas_to_png"]

\* dt.set_transform(..)
task_set_transform(t) ==
    /\ TaskAt(t, {"set_transform"})
    /\ CallOn(t, 1)
    /\ Set(t, Advance(tasks[t], tasks[t].ip))
    /\ UNCHANGED <<sequential, nextId, cells, timeGate, running, stored>>

\* One shape painted: dt.stroke(..) and the dt.fill(..) that follows it, or
\* the one of the two the shape gets.
task_paint(t) ==
    /\ TaskAt(t, {"stroke", "fill"})
    /\ ~NeedsStroke(t)
    /\ LET i == tasks[t].ip
       IN  IF FillFollows(i)
           THEN CallOn(t, 2) /\ Set(t, Advance(tasks[t], i + 1))
           ELSE CallOn(t, 1) /\ Set(t, Advance(tasks[t], i))
    /\ UNCHANGED <<sequential, nextId, cells, timeGate, running, stored>>

\* dt.draw_text(&font.load().unwrap(), ..)
task_draw_text(t) ==
    /\ tasks[t].pc = "draw_text"
    /\ \E loaded \in FontLookups :
         IF Unwrap(loaded).panic
         THEN /\ Set(t, [tasks[t] EXCEPT !.pc = "panicked", !.dt = None])
              /\ UNCHANGED canvases
         ELSE /\ CallOn(t, 1)
              /\ Set(t, [tasks[t] EXCEPT !.pc = "canvas_to_png"])
    /\ UNCHANGED <<sequential, nextId, cells, timeGate, running, stored>>

\* canvas_to_png(dt): the canvas moves into the call, is read and dropped;
\* the bytes returned are made of what the canvas holds.
task_canvas_to_png(t) ==
    /\ tasks[t].pc = "canvas_to_png"
    /\ LET id == tasks[t].dt[1]
       IN  /\ canvases' = [canvases EXCEPT ![id] = [@ EXCEPT !.read = @ \cup {t}]]
           /\ Set(t, [tasks[t] EXCEPT
                        !.pc = "done",
                        !.dt = None,
                        !.font = None,
                        !.out = Some([canvas |-> id, callers |-> canvases[id].callers,
                                      calls |-> canvases[id].calls])])
    /\ UNCHANGED <<sequential, nextId, cells, timeGate, running, stored>>

(***************************************************************************)
(* OnceLock::get_or_init, by the thread standing at the cell.              *)
(***************************************************************************)
Cell(c) == CASE c = "FONT" -> FONT [] c = "STROKE" -> STROKE [] c = "OFFSETS" -> OFFSETS

\* What the closure of each cell can return; None is its panic.
Closure(c) ==
    CASE c = "FONT" -> FontLookups
      [] c = "STROKE" -> {Some(DefaultStroke)}
      [] c = "OFFSETS" -> {Some(valid_time_offsets)}

\* The cell whose get_or_init the thread is in, if any.
CellAt(t) ==
    IF tasks[t].pc \in CellNames THEN tasks[t].pc
    ELSE IF NeedsStroke(t) THEN "STROKE"
    ELSE ""

AtCell(t) == CellAt(t) \in CellNames

\* The cell taken by any thread that finds it empty, another's closure
\* running or not.
CanBeginUnguarded(r) == TRUE

\* An empty cell is taken by one thread at a time: the others wait.
CanBegin(r) == r = None

\* The cell is set: the thread gets the reference and goes on.
once_get(t) ==
    /\ AtCell(t)
    /\ ~tasks[t].closure
    /\ Cell(CellAt(t)) # None
    /\ LET c == CellAt(t)
       IN  Set(t, CASE c = "FONT" -> [tasks[t] EXCEPT !.font = FONT, !.pc = "draw_text"]
                    [] c = "STROKE" -> [tasks[t] EXCEPT !.stroke = STROKE, !.ready = TRUE]
                    [] c = "OFFSETS" ->
                         [tasks[t] EXCEPT !.offsets = OFFSETS, !.pc = tasks[t].fn])
    /\ UNCHANGED <<sequential, nextId, cells, timeGate, canvases, running, stored>>

\* The cell is empty and free: the thread runs the closure.
once_begin(t) ==
    /\ AtCell(t)
    /\ ~tasks[t].closure
    /\ Cell(CellAt(t)) = None
    /\ CanBegin(running[CellAt(t)])
    /\ running' = [running EXCEPT ![CellAt(t)] = Some(t)]
    /\ Set(t, [tasks[t] EXCEPT !.closure = TRUE])
    /\ UNCHANGED <<sequential, nextId, cells, timeGate, canvases, stored>>

\* The closure returned: its value is stored and the cell released.
once_store(t) ==
    /\ AtCell(t)
    /\ tasks[t].closure
    /\ LET c == CellAt(t)
       IN  /\ \E v \in Closure(c) \ {None} :
                 /\ FONT' = IF c = "FONT" THEN v ELSE FONT
                 /\ STROKE' = IF c = "STROKE" THEN v ELSE STROKE
                 /\ OFFSETS' = IF c = "OFFSETS" THEN v ELSE OFFSETS
           /\ running' = [running EXCEPT ![c] = None]
           /\ stored' = [stored EXCEPT ![c] = @ + 1]
    /\ Set(t, [tasks[t] EXCEPT !.closure = FALSE])
    /\ UNCHANGED <<sequential, nextId, timeGate, canvases>>

\* The closure panicked: the cell stays empty and is released, and the
\* panic unwinds the handler, dropping its canvas.
once_panic(t) ==
    /\ AtCell(t)
    /\ tasks[t].closure
    /\ None \in Closure(CellAt(t))
    /\ running' = [running EXCEPT ![CellAt(t)] = None]
    /\ Set(t, [tasks[t] EXCEPT !.closure = FALSE, !.pc = "panicked", !.dt = None])
    /\ UNCHANGED <<sequential, nextId, cells, timeGate, canvases, stored>>

NextPar ==
    \E t \in Threads :
        \/ spawn_verified_cat(t)
        \/ spawn_nocat(t)
        \/ spawn_freecat(t)
        \/ task_new_canvas(t)
        \/ task_set_transform(t)
        \/ task_paint(t)
        \/ task_draw_text(t)
        \/ task_canvas_to_png(t)
        \/ once_get(t)
        \/ once_begin(t)
        \/ once_store(t)
        \/ once_panic(t)

SpecPar == InitPar /\ [][NextPar]_vars

(***************************************************************************)
(* Properties.                                                             *)
(***************************************************************************)

\* The fields of a sample: alpha is bits 24..31, then red, green, blue.
AlphaOf(p) == p.hi \div 256
RedOf(p) == p.hi % 256
GreenOf(p) == p.lo \div 256
BlueOf(p) == p.lo % 256

Converted == png # None /\ png[1].output # None
InBuf == png[1].buf[1].at
OutAt(i, k) == png[1].output[1].at[4 * i + k]

C2_NoDivisionAtZeroAlpha ==
    /\ pc # "panicked"
    /\ Converted =>
         \A i \in DOMAIN InBuf :
             LET p == InBuf[i]
             IN  AlphaOf(p) = 0 =>
                     /\ i \notin png[1].divided
                     /\ OutAt(i, 0) = RedOf(p)
                     /\ OutAt(i, 1) = GreenOf(p)
                     /\ OutAt(i, 2) = BlueOf(p)
                     /\ OutAt(i, 3) = 0
                     /\ (p = Pixel(0, 0, 0, 0) =>
                            <<OutAt(i, 0), OutAt(i, 1), OutAt(i, 2), OutAt(i, 3)>> = <<0, 0, 0, 0>>)

\* A fully transparent sample was converted next to one that was divided.
C2_Witness ==
    /\ Converted
    /\ \E i \in DOMAIN InBuf :
         /\ InBuf[i] = Pixel(0, 0, 0, 0)
         /\ i \notin png[1].divided
         /\ <<OutAt(i, 0), OutAt(i, 1), OutAt(i, 2), OutAt(i, 3)>> = <<0, 0, 0, 0>>
    /\ png[1].divided # {}

EncodeFailed == png # None /\ png[1].res = Some([ok |-> FALSE, file |-> <<>>])

\* C3: when the header write or the image-data write fails, purchase_cat and
\* out_of_stock return a zero-length buffer, nothing is propagated, and the
\* handler answers 200 image/png with that empty body.
C3_EncodeFailureGivesEmptyBody ==
    EncodeFailed =>
        /\ render \in {"purchase_cat", "out_of_stock"}
        /\ pc \in {"return", "respond", "idle"}
        /\ pc = "respond" => result # None /\ Len(result[1]) = 0
        /\ pc = "idle" =>
               /\ response # None
               /\ Len(response[1].body) = 0
               /\ response[1].status = 200
               /\ response[1].content_type = "image/png"

\* purchase_cat's header write failed and the response went out empty.
C3_Witness ==
    /\ EncodeFailed
    /\ render = "purchase_cat"
    /\ png[1].header = None
    /\ pc = "idle"
    /\ response # None
    /\ response[1].body = <<>>

\* C4, as stated: PNG encoding is the only step of purchase_cat and
\* out_of_stock that can fail, so no call is ever aborted and every call
\* returns a buffer.
C4_OnlyEncodingCanFail ==
    /\ pc # "panicked"
    /\ (pc = "idle" /\ served > 0) => response # None

\* The order of the parts, and the anchor of each leg's frame.
PartOrder ==
    <<"tail", "neck", "leg1", "leg2", "leg3", "leg4", "body", "ears", "head", "eyes", "nose">>
Rank(part) == CHOOSE k \in 1..Len(PartOrder) : PartOrder[k] = part
LegAnchor ==
    [leg1 |-> <<-450, 210>>, leg2 |-> <<-250, 260>>,
     leg3 |-> <<250, 260>>, leg4 |-> <<450, 210>>]
IsLeg(part) == part \in {"leg1", "leg2", "leg3", "leg4"}
Painted(part) == \E k \in 1..Len(ops) : ops[k].part = part
DrawCatReturned == render = "purchase_cat" /\ pc \notin {"purchase_cat", "draw_cat"}

\* C5: the parts are painted in the order tail, neck, the four legs from
\* outer-left to outer-right, body, ears, head, eyes, nose: the first part
\* painted is the tail, each call paints the part of the call before it or
\* the next part of the order, every part is painted by the time draw_cat
\* returns, and the head group comes after body and neck.
C5_PaintOrder ==
    render = "purchase_cat" =>
        /\ ops # <<>> => ops[1].part = "tail"
        /\ \A k \in 2..Len(ops) :
               \/ ops[k].part = ops[k - 1].part
               \/ Rank(ops[k].part) = Rank(ops[k - 1].part) + 1
        /\ \A k \in 1..Len(ops) :
               ops[k].part \in {"ears", "head", "eyes", "nose"} =>
                   \E b \in 1..(k - 1), n \in 1..(k - 1) :
                       ops[b].part = "body" /\ ops[n].part = "neck"
        /\ DrawCatReturned => ops[Len(ops)].part = "nose"
        /\ (lastOp # None /\ IsLeg(lastOp[1].part)) =>
               LET t == lastOp[1].transform[2]
               IN  t.op = "translate" /\ <<t.a, t.b>> = LegAnchor[lastOp[1].part]

\* The nose has just been painted, after every other part.
C5_Witness ==
    /\ render = "purchase_cat"
    /\ pc = "draw_cat"
    /\ lastOp # None
    /\ lastOp[1].part = "nose"
    /\ Painted("body")
    /\ Painted("leg4")

StrokedAndFilled == {"neck", "leg1", "leg2", "leg3", "leg4", "body", "ears", "head"}

\* C6: the tail is stroked only, with width 7; neck, legs, body, ears and
\* head are stroked in black with round cap, miter join, miter limit 2 and
\* width 5 and then filled, the stroke right before the fill of the same
\* path; eyes and nose are filled only, in opaque black.
C6_StyleSequence ==
    render = "purchase_cat" =>
        /\ \A k \in 1..Len(ops) :
               /\ ops[k].part = "tail" => ops[k].kind = "stroke"
               /\ ops[k].part \in {"eyes", "nose"} => ops[k].kind = "fill"
               /\ (ops[k].part \in StrokedAndFilled /\ ops[k].kind = "fill") =>
                      /\ k > 1
                      /\ ops[k - 1].kind = "stroke"
                      /\ ops[k - 1].part = ops[k].part
                      /\ ops[k - 1].path = ops[k].path
               /\ (ops[k].part \in StrokedAndFilled /\ ops[k].kind = "stroke") =>
                      /\ k = Len(ops) \/ (ops[k + 1].kind = "fill" /\ ops[k + 1].part = ops[k].part)
                      /\ k = Len(ops) => pc = "draw_cat"
        /\ lastOp # None =>
               LET o == lastOp[1]
                   styled(w) ==
                       /\ o.style # None
                       /\ o.style[1].cap = "Round"
                       /\ o.style[1].join = "Miter"
                       /\ o.style[1].miter_limit = 2
                       /\ o.style[1].width = w
                   black == o.src = [r |-> 0, g |-> 0, b |-> 0, a |-> 255]
               IN  /\ o.kind = "stroke" => black
                   /\ o.part = "tail" => styled(7)
                   /\ (o.part \in StrokedAndFilled /\ o.kind = "stroke") => styled(5)
                   /\ o.part \in {"eyes", "nose"} => black /\ o.style = None

\* The third leg has just been filled, right after its stroke.
C6_Witness ==
    /\ render = "purchase_cat"
    /\ lastOp # None
    /\ lastOp[1].part = "leg3"
    /\ lastOp[1].kind = "fill"
    /\ Len(ops) > 1
    /\ ops[Len(ops) - 1] = [kind |-> "stroke", part |-> "leg3", path |-> "leg"]

\* The frames of the sections, each mapped through the global pose once.
SectionFrames(b) ==
    { Then(Then(Rotation(-30), Translation(-450, -190)), b),
      Then(Then(Rotation(20), Translation(-450, 210)), b),
      Then(Then(Rotation(5), Translation(-250, 260)), b),
      Then(Then(Rotation(-5), Translation(250, 260)), b),
      Then(Then(Rotation(-20), Translation(450, 210)), b),
      Then(Translation(-590, -440), b) }

\* A set_transform step, taken right after the last paint call of `part`.
TransformSetAfter(part) ==
    /\ pc = "draw_cat"
    /\ lastOp # None
    /\ lastOp[1].part = part
    /\ lastOp[1].kind = "fill"
    /\ dt # None
    /\ dt' # None
    /\ ops' = ops
    /\ ip' # ip

UnderOneFrame ==
    (pc = "draw_cat" /\ lastOp # None) =>
        \/ lastOp[1].transform = base[1]
        \/ lastOp[1].transform \in SectionFrames(base[1])

EndsAtBase == (pc = "draw_cat" /\ pc' = "canvas_to_png") => dt'[1].transform = base[1]

\* C7, as stated: after each of the sections neck, legs and head group the
\* active transform is set back to the global pose (or identity); every
\* stroke and fill is issued under the global pose or one local frame mapped
\* through it; draw_cat ends with the global pose active.
C7_AsStated ==
    /\ [][ \A part \in {"neck", "leg4", "nose"} :
             TransformSetAfter(part) => dt'[1].transform \in {base[1], Identity} ]_vars
    /\ [][EndsAtBase]_vars
    /\ []UnderOneFrame

\* C7, amended: the active transform is set back to the global pose after the
\* legs and after the head group; after the neck it is not: the first leg's
\* frame, mapped through the global pose, replaces the neck's frame directly.
\* Every stroke and fill is issued under the global pose or one local frame
\* mapped through it, and draw_cat ends with the global pose active.
C7_TransformReset ==
    /\ [][ \A part \in {"leg4", "nose"} :
             TransformSetAfter(part) => dt'[1].transform = base[1] ]_vars
    /\ [][ TransformSetAfter("neck") =>
             /\ dt'[1].transform # base[1]
             /\ dt'[1].transform =
                    Then(Then(Rotation(20), Translation(-450, 210)), base[1]) ]_vars
    /\ [][EndsAtBase]_vars
    /\ []UnderOneFrame

\* The neck is painted and the active transform is the first leg's frame.
C7_Witness ==
    /\ pc = "draw_cat"
    /\ lastOp # None
    /\ lastOp[1].part = "neck"
    /\ lastOp[1].kind = "fill"
    /\ dt[1].transform = Then(Then(Rotation(20), Translation(-450, 210)), base[1])

RandomlyFilled == {"neck", "leg1", "leg2", "leg3", "leg4", "body", "ears", "head"}
Light(src) == \A c \in {src.r, src.g, src.b} : c >= 100 /\ c <= 255

\* C8: every fill of neck, legs, body, ears and head has red, green and blue
\* in [100,255] and alpha 0xFF; only eyes and nose are filled darker; every
\* colour painted with is opaque.
C8_FillColours ==
    /\ lastOp # None =>
           /\ lastOp[1].src.a = 255
           /\ (lastOp[1].kind = "fill" /\ lastOp[1].part \in RandomlyFilled) => Light(lastOp[1].src)
           /\ (lastOp[1].kind = "fill" /\ ~Light(lastOp[1].src)) => lastOp[1].part \in {"eyes", "nose"}
    /\ \A k \in 1..Len(fills) : fills[k].a = 255

\* Two fills in a row of one render drew different colours, each at one end
\* of the range.
C8_Witness ==
    /\ lastOp # None
    /\ lastOp[1].kind = "fill"
    /\ lastOp[1].part = "body"
    /\ Len(fills) = 2
    /\ fills[1] = [r |-> 100, g |-> 100, b |-> 100, a |-> 255]
    /\ fills[2] = [r |-> 255, g |-> 255, b |-> 255, a |-> 255]

\* The bytes the conversion gives for a sample, colour fields at most alpha.
StraightBytes(p) ==
    LET a == AlphaOf(p)
        c(x) == IF a = 0 THEN x ELSE (x * 255) \div a
    IN  <<c(RedOf(p)), c(GreenOf(p)), c(BlueOf(p)), a>>

\* C9: both drawing functions create a 400 by 256 canvas and give the encoder
\* those dimensions with colour type RGBA and bit depth 8; the bytes handed to
\* write_image_data number 4 * 400 * 256, pixel by pixel in canvas order.
C9_Dimensions ==
    /\ dt # None => dt[1].width = 400 /\ dt[1].height = 256
    /\ png # None =>
           /\ png[1].canvas.width = 400 /\ png[1].canvas.height = 256
           /\ png[1].encoder = [width |-> 400, height |-> 256, color |-> "Rgba", depth |-> "Eight"]
           /\ png[1].header # None => png[1].header[1] = png[1].encoder
           /\ png[1].output # None =>
                  /\ png[1].buf[1].len = 400 * 256
                  /\ png[1].output[1].len = 4 * 400 * 256
                  /\ \A i \in DOMAIN InBuf :
                         <<OutAt(i, 0), OutAt(i, 1), OutAt(i, 2), OutAt(i, 3)>> = StraightBytes(InBuf[i])
           /\ (png[1].res # None /\ png[1].res[1].ok) =>
                  /\ png[1].res[1].file[1].header = Some(png[1].encoder)
                  /\ png[1].res[1].file[2].data = png[1].output

\* out_of_stock's canvas was encoded, its first sample transparent and its
\* last one not.
C9_Witness ==
    /\ render = "out_of_stock"
    /\ png # None
    /\ png[1].res # None
    /\ png[1].res[1].ok
    /\ png[1].output[1].len = 409600
    /\ OutAt(0, 3) = 0
    /\ OutAt(102399, 3) = 255

Unconsumed == {"fresh", "mutated"}

\* A step that issues set_transform, stroke, fill or draw_text.
CanvasCall == ops' # ops \/ (dt # None /\ dt' # None /\ dt'[1].transform # dt[1].transform)

\* C10: a canvas is created fresh, mutated by set_transform, stroke and fill,
\* passed to canvas_to_png once and then dropped: no call is issued on a canvas
\* once it is passed on, no canvas is serialised twice, none is used again by
\* a later request, and a render that returns has serialised its canvas.
C10_CanvasLifecycle ==
    /\ [][ \A id \in DOMAIN life :
             /\ id \in DOMAIN life'
             /\ life[id] = "discarded" => life'[id] = "discarded"
             /\ life[id] = "serialized" => life'[id] \in {"serialized", "discarded"}
             /\ life[id] = "mutated" => life'[id] # "fresh" ]_vars
    /\ [][ \A id \in DOMAIN life' \ DOMAIN life : life'[id] = "fresh" ]_vars
    /\ [][ (CanvasCall /\ ops' # <<>>) =>
             /\ dt # None
             /\ life[dt[1].id] \in Unconsumed
             /\ life'[dt[1].id] = "mutated" ]_vars
    /\ [][ (pc = "canvas_to_png" /\ pc' # pc) =>
             /\ life[dt[1].id] \in Unconsumed
             /\ life'[dt[1].id] = "serialized"
             /\ dt' = None ]_vars
    /\ [](dt # None => life[dt[1].id] \in Unconsumed)
    /\ [](pc = "respond" => (png # None /\ life[png[1].canvas.id] = "discarded"))

\* The second request paints its own canvas; the first one's is long dropped.
C10_Witness ==
    /\ served = 1
    /\ pc = "draw_cat"
    /\ dt # None
    /\ dt[1].id = 2
    /\ life[1] = "discarded"
    /\ life[2] = "mutated"
    /\ Len(ops) > 3

\* The anchors (in tenths) and rotations (in degrees) of the four legs.
LegPlacement ==
    <<<<-450, 210, 20>>, <<-250, 260, 5>>, <<250, 260, -5>>, <<450, 210, -20>>>>

LegIndex(part) == CHOOSE i \in 1..4 : LegName(i) = part

\* The paint call just issued is on a leg.
LegPainted == lastOp # None /\ IsLeg(lastOp[1].part)

\* Every leg is painted in its own fixed frame: rotated, moved to its anchor,
\* then mapped through the global pose.
LegsPlaced ==
    LegPainted =>
        LET at == LegPlacement[LegIndex(lastOp[1].part)]
        IN  lastOp[1].transform =
                Then(Then(Rotation(at[3]), Translation(at[1], at[2])), base[1])

\* C13, as stated: each of the four legs is painted from a path of its own,
\* built with its own draw of the two radii, and is placed at its fixed
\* anchor and rotation: (-45,21)/20, (-25,26)/5, (25,26)/-5, (45,21)/-20.
C13_AsStated ==
    /\ LegsPlaced
    /\ \A k, m \in DOMAIN ops :
          (IsLeg(ops[k].part) /\ IsLeg(ops[m].part) /\ ops[k].part # ops[m].part)
              => ops[k].path # ops[m].path

\* C13, amended: the four legs are painted from one ellipse whose radii are
\* drawn once per render, before any paint call, and that path is not
\* rebuilt between the legs; each leg is placed at its fixed anchor and
\* rotation: (-45,21)/20, (-25,26)/5, (25,26)/-5, (45,21)/-20.
C13_LegsShareOnePath ==
    /\ [](LegsPlaced)
    /\ [](LegPainted =>
            /\ lastOp[1].path = shapes.leg
            /\ lastOp[1].path \in LegPaths
            /\ \A k \in DOMAIN ops : IsLeg(ops[k].part) => ops[k].path = "leg")
    /\ [][ (pc = "draw_cat" /\ pc' = "draw_cat" /\ ip >= 2) =>
             shapes'.leg = shapes.leg ]_vars

\* The fourth leg was filled with the ellipse of radii 7.9 and 23 that the
\* first leg was painted with, rotated by -20 degrees at (45, 21).
C13_Witness ==
    /\ LegPainted
    /\ lastOp[1].kind = "fill"
    /\ lastOp[1].part = "leg4"
    /\ lastOp[1].path = ellipse(0, 0, 79, 230)
    /\ SubSeq(lastOp[1].transform, 1, 2) = Then(Rotation(-20), Translation(450, 210))
    /\ Len(SelectSeq(ops, LAMBDA e : IsLeg(e.part))) = 8

\* The colour fields of a sample with the output offset of each: red, green,
\* blue.
Channels(p) == <<RedOf(p), GreenOf(p), BlueOf(p)>>

\* Each colour field is at most alpha, alpha in 1..255.
Premultiplied(p) ==
    /\ AlphaOf(p) \in 1..255
    /\ \A k \in 1..3 : Channels(p)[k] <= AlphaOf(p)

\* C17: for a sample whose colour fields are each at most its alpha (alpha in
\* 1..255) every quotient channel*255/a lies in 0..255 and is emitted as it
\* is, a field equal to alpha giving exactly 255; a quotient above 255 comes
\* only from a field greater than alpha, and the byte emitted for it is the
\* quotient modulo 256.
C17_PremultipliedFitsByte ==
    Converted =>
        \A i \in DOMAIN InBuf :
            LET p == InBuf[i]
                a == AlphaOf(p)
                q(k) == (Channels(p)[k] * 255) \div a
            IN  a > 0 =>
                  /\ Premultiplied(p) =>
                        \A k \in 1..3 :
                            /\ q(k) \in 0..255
                            /\ OutAt(i, k - 1) = q(k)
                            /\ (Channels(p)[k] = a => OutAt(i, k - 1) = 255)
                  /\ \A k \in 1..3 :
                        q(k) > 255 =>
                            /\ Channels(p)[k] > a
                            /\ OutAt(i, k - 1) = q(k) % 256
                            /\ OutAt(i, k - 1) # q(k)

\* A sample with red equal to its alpha 128 came out with red 255, and a
\* sample with red 3 over alpha 2 (quotient 382) came out with red 126.
C17_Witness ==
    /\ Converted
    /\ \E i, j \in DOMAIN InBuf :
         /\ InBuf[i] = Pixel(128, 128, 17, 128)
         /\ Premultiplied(InBuf[i])
         /\ OutAt(i, 0) = 255
         /\ OutAt(i, 1) = 33
         /\ InBuf[j] = Pixel(2, 3, 1, 2)
         /\ ~Premultiplied(InBuf[j])
         /\ OutAt(j, 0) = 126

\* A call of the time gate that has returned, and what it was given.
GateReturned(fn) == gate # None /\ gate[1].fn = fn /\ gate[1].out # None

\* A time of day in whole seconds.
Clock(h, m, sec) == h * 3600 + m * 60 + sec

\* The whole-second time of day of an instant `offset` minutes before
\* `instant`: whole days drop out, and with them the high limb.
LocalSecond(instant, offset) ==
    ((instant - (offset.lo % 1440) * 60000) % 86400000) \div 1000

\* 2:22, am or pm, with CLIENT_LEEWAY seconds on either side.
InWindow(second) ==
    \/ second \in (Clock(2, 21, 60) - CLIENT_LEEWAY)..(Clock(2, 23, 0) + CLIENT_LEEWAY)
    \/ second \in (Clock(14, 21, 60) - CLIENT_LEEWAY)..(Clock(14, 23, 0) + CLIENT_LEEWAY)

\* C14: verify_time returns Some exactly when the offset is a listed one, the
\* clock's time in that offset's zone is 2:22 (am or pm) within CLIENT_LEEWAY,
\* the client's time is at most 15000 ms from the clock, and the client's
\* time shifted by the offset has 12-hour hour 2 and minute 22; otherwise it
\* returns None.
C14_FourChecks ==
    GateReturned("verify_time") =>
        LET time == gate[1].time
            offset == gate[1].offset
            now == gate[1].now
            listed == \E i \in DOMAIN valid_time_offsets :
                          offset.hi = 0 /\ offset.lo = valid_time_offsets[i]
            onTime == InWindow(LocalSecond(now, offset))
            inSync == time.hi = 0 /\ Abs(time.lo - now) <= 15000
            client == (time.lo - (offset.lo % 1440) * 60000) % 86400000
            thinks == (client \div 3600000) % 12 = HOUR /\ (client \div 60000) % 60 = MINUTE
        IN  /\ ~gate[1].out[1].panic
            /\ gate[1].out[1].some <=> (listed /\ onTime /\ inSync /\ thinks)

\* At 02:22:10 a client time of 02:22:25, exactly 15000 ms ahead, was
\* accepted with offset 0.
C14_Witness ==
    /\ GateReturned("verify_time")
    /\ gate[1].now = 94930000
    /\ gate[1].time = Wide(94945000)
    /\ gate[1].offset = Wide(0)
    /\ gate[1].out[1].some

\* C16: valid_time_in_zone(now, offset) is true exactly when the whole-second
\* time of day of now - offset minutes lies in [02:21:59, 02:23:01] or in
\* [14:21:59, 14:23:01]; an offset that TimeDelta cannot hold, or that takes
\* the date out of DateTime's range, gives false, and no input a panic.
C16_Window ==
    GateReturned("valid_time_in_zone") =>
        LET offset == gate[1].offset
            now == gate[1].now
            fits == Abs(offset.hi) <= 150
            fails == Abs(offset.hi) >= 170
        IN  /\ ~gate[1].out[1].panic
            /\ fits => (gate[1].out[1].some <=>
                           \/ LocalSecond(now, offset) \in Clock(2, 21, 59)..Clock(2, 23, 1)
                           \/ LocalSecond(now, offset) \in Clock(14, 21, 59)..Clock(14, 23, 1))
            /\ fails => ~gate[1].out[1].some
            /\ fits \/ fails

\* At 02:23:01.999 the zone of offset 0 was still on time: the last whole
\* second of the window.
C16_Witness ==
    /\ GateReturned("valid_time_in_zone")
    /\ gate[1].now = 94981999
    /\ gate[1].offset = Wide(0)
    /\ LocalSecond(gate[1].now, gate[1].offset) = Clock(2, 23, 1)
    /\ gate[1].out[1].some

\* A query of the form <i64>&<i64>.
WellFormed(query) ==
    /\ query # None
    /\ Len(query[1]) = 3
    /\ query[1][1].t = "int"
    /\ query[1][2] = Amp
    /\ query[1][3].t = "int"

\* The request being served, or just served, came in on /cat.
OnCat == req # None /\ req[1].route = "/cat"

\* The creature is drawn only for a well-formed query whose pair verify_time
\* accepts at the clock the handler read, the unavailable image otherwise.
CatOnlyWhenVerified ==
    OnCat =>
        LET query == req[1].query
            accepted == WellFormed(query) /\
                        verify_time(Wide(query[1][1].v), Wide(query[1][3].v), req[1].now).some
        IN  render = IF accepted THEN "purchase_cat" ELSE "out_of_stock"

\* C15, as stated: the /cat handler serves the creature image only when the
\* query has the form <i64>&<i64> and verify_time accepts the pair, and the
\* unavailable image for every other request; in every case the request is
\* answered, with 200 OK and content type image/png.
C15_AsStated ==
    /\ CatOnlyWhenVerified
    /\ OnCat =>
         /\ pc # "panicked"
         /\ pc = "idle" =>
              /\ response # None
              /\ response[1].status = 200
              /\ response[1].content_type = "image/png"

(***************************************************************************)
(* Concurrent renders.                                                     *)
(***************************************************************************)
\* The calls a finished render has made on its canvas.
CallsOf(fn) ==
    IF fn = "purchase_cat"
    THEN Cardinality({ i \in 1..Len(draw_cat) : ~Local(i) })
    ELSE 1

\* The canvases two threads hold at the same time are different ones.
HeldApart ==
    \A t \in Threads, u \in Threads :
        (t # u /\ tasks[t].dt # None /\ tasks[u].dt # None)
            => tasks[t].dt # tasks[u].dt

\* C11: however the steps of concurrent renders interleave, and whatever mix
\* of purchase_cat and out_of_stock they are, each canvas is called
\* (set_transform, stroke, fill, draw_text) and read for serialisation by the
\* thread that created it and by no other, the canvas a thread holds is one
\* it created, and the bytes a request gets are made of its own canvas, after
\* all of its own calls and no one else's.
C11_NoAliasing ==
    /\ \A id \in DOMAIN canvases :
         /\ canvases[id].callers \subseteq {canvases[id].owner}
         /\ canvases[id].read \subseteq {canvases[id].owner}
    /\ \A t \in Threads :
         tasks[t].dt # None =>
            /\ tasks[t].dt[1] \in DOMAIN canvases
            /\ canvases[tasks[t].dt[1]].owner = t
    /\ HeldApart
    /\ \A t \in Threads :
         tasks[t].out # None =>
            LET out == tasks[t].out[1]
            IN  /\ canvases[out.canvas].owner = t
                /\ canvases[out.canvas].read = {t}
                /\ out.callers = {t}
                /\ out.calls = CallsOf(tasks[t].fn)
                /\ canvases[out.canvas].calls = out.calls

\* An out_of_stock render has drawn its text and a purchase_cat render is
\* past its third call, each on its own canvas, at the same time.
C11_Witness ==
    \E t \in Threads, u \in Threads :
        /\ tasks[t].fn = "out_of_stock"
        /\ tasks[t].pc = "canvas_to_png"
        /\ canvases[tasks[t].dt[1]].calls = 1
        /\ tasks[u].fn = "purchase_cat"
        /\ tasks[u].pc = "draw_cat"
        /\ canvases[tasks[u].dt[1]].calls >= 3
        /\ tasks[t].dt # tasks[u].dt

\* A reference a thread holds into a cell is to what the cell holds.
Observed(held, cell) == held # None => (cell # None /\ held = cell)

\* C12: under any interleaving of first accesses to the default stroke
\* style, the font handle and the list of offsets, at most one value is ever
\* stored in each cell and the cell holds a value exactly when one was
\* stored; every reference a thread gets is to that value; and a cell that
\* holds a value keeps it unchanged in every step.
C12_InitialisedOnce ==
    /\ [](\A c \in CellNames :
            /\ stored[c] <= 1
            /\ (Cell(c) # None) <=> (stored[c] = 1))
    /\ [](/\ STROKE \in {None, Some(DefaultStroke)}
          /\ OFFSETS \in {None, Some(valid_time_offsets)}
          /\ FONT \in FontLookups)
    /\ [](\A t \in Threads :
            /\ Observed(tasks[t].stroke, STROKE)
            /\ Observed(tasks[t].font, FONT)
            /\ Observed(tasks[t].offsets, OFFSETS))
    /\ [][/\ STROKE # None => STROKE' = STROKE
          /\ FONT # None => FONT' = FONT
          /\ OFFSETS # None => OFFSETS' = OFFSETS]_vars

\* Two threads at the same stroke of their renders hold the reference to the
\* one stroke style stored.
C12_Witness ==
    \E t \in Threads, u \in Threads :
        /\ t # u
        /\ stored["STROKE"] = 1
        /\ tasks[t].stroke = STROKE
        /\ tasks[u].stroke = STROKE
        /\ STROKE = Some(DefaultStroke)
        /\ tasks[t].ip = tasks[u].ip

====
